---- MODULE Spec2Model ----
(***************************************************************************)
(* Model of scripts/generate-topology.py: the batch controller that loads  *)
(* a Cooja scenario, re-places its motes by rejection sampling, sweeps the *)
(* tx/rx success ratios and saves one scenario file per combination.       *)
(*                                                                         *)
(* Numbers.  Coordinates, ranges and distances are integers; a distance    *)
(* comparison sqrt(d2) < r is evaluated as r > 0 /\ d2 < r*r.  A call      *)
(* random.uniform(a, b) yields one of the integer points between a and b.  *)
(* Success ratios are counted in thousandths (504 is 0.504); the ratio     *)
(* inputs have no digit 5 in the last place, so round(t, 2) has no ties.   *)
(* Text is a sequence of one-character strings.                            *)
(***************************************************************************)
EXTENDS Integers, Sequences, FiniteSets, TLC

VARIABLES argv, scenario, args, pc, exit_msg, c, i, motes, sx, sy, todo,
          saved, seed_log, run, reruns, prev

vars == <<argv, scenario, args, pc, exit_msg, c, i, motes, sx, sy, todo,
          saved, seed_log, run, reruns, prev>>

(* ------------------------------ bounds --------------------------------- *)
MaxCount == 2
MaxMotes == 3
MaxRange == 3
MaxMinDistance == 2
MaxRatios == 2

(* -------------------------- program constants -------------------------- *)
FallbackRange == 50
MaxSeed == 2147483647

(* ------------------------------- text ---------------------------------- *)
EmptyStr == << >>

DigitChars == <<"0", "1", "2", "3", "4", "5", "6", "7", "8", "9">>

Min(a, b) == IF a <= b THEN a ELSE b
Max(a, b) == IF a >= b THEN a ELSE b

RECURSIVE IntText(_)
IntText(n) == IF n < 10 THEN <<DigitChars[n + 1]>>
              ELSE IntText(n \div 10) \o <<DigitChars[(n % 10) + 1]>>

RECURSIVE PadLeft(_, _)
PadLeft(s, w) == IF Len(s) >= w THEN s ELSE PadLeft(<<"0">> \o s, w)

\* f'{n:05}'
ZeroPad5(n) == PadLeft(IntText(n), 5)

\* round(t, 2) on thousandths
Round2(t) == ((t + 5) \div 10) * 10

\* f'{t:.2f}' on thousandths, t >= 0
Fmt2f(t) == LET h == (t + 5) \div 10
            IN  IntText(h \div 100) \o <<".">>
                  \o <<DigitChars[((h \div 10) % 10) + 1], DigitChars[(h % 10) + 1]>>

\* str.rfind, 1-based, 0 when absent
RFind(p, ch) == LET S == {j \in 1..Len(p) : p[j] = ch}
                IN  IF S = {} THEN 0 ELSE CHOOSE j \in S : \A k \in S : k <= j

RECURSIVE RStrip(_, _)
RStrip(p, ch) == IF p # EmptyStr /\ p[Len(p)] = ch
                 THEN RStrip(SubSeq(p, 1, Len(p) - 1), ch) ELSE p

\* os.path.dirname
Dirname(p) == LET head == SubSeq(p, 1, RFind(p, "/"))
              IN  IF head # EmptyStr /\ (\E j \in 1..Len(head) : head[j] # "/")
                  THEN RStrip(head, "/") ELSE head

\* os.path.splitext: <<root, ext>>; leading dots of the file name are no extension
Splitext(p) == LET sep == RFind(p, "/")
                   dot == RFind(p, ".")
               IN  IF dot > sep /\ (\E j \in (sep + 1)..(dot - 1) : p[j] # ".")
                   THEN <<SubSeq(p, 1, dot - 1), SubSeq(p, dot, Len(p))>>
                   ELSE <<p, EmptyStr>>

\* line 45: the comparison of the splitext pair with '' is what the code evaluates
OutputDir(output) == IF Splitext(output) # EmptyStr THEN Dirname(output) ELSE output

(* ---------------------------- geometry --------------------------------- *)
\* get_distance, squared
Dist2(p, x, y) == LET dx == IF x >= p[1] THEN x - p[1] ELSE p[1] - x
                      dy == IF y >= p[2] THEN y - p[2] ELSE p[2] - y
                  IN  dx * dx + dy * dy

\* sqrt(d2) < r
DistLess(d2, r) == r > 0 /\ d2 < r * r

\* random.uniform(a, b) with a = a2/2, b = b2/2: a + (b - a) * random()
Uniform(a2, b2) == LET lo == Min(a2, b2)
                       hi == Max(a2, b2)
                   IN  {v \in (lo \div 2)..((hi + 1) \div 2) : lo <= 2 * v /\ 2 * v <= hi}

\* random.randint(a, b): the ends of the inclusive range stand for the range
RandInt(a, b) == {a, b}

TxRange == IF scenario.udgm THEN scenario.transmitting_range ELSE FallbackRange
MaxRangeOf == TxRange * Len(scenario.positions)
PromoteMultihop == args.topology # "spread"

WindowX == IF PromoteMultihop
           THEN Uniform(2 * sx - MaxRangeOf + 2, 2 * sx + MaxRangeOf - 2)
           ELSE Uniform(2 * (sx - MaxRangeOf + 1), 2 * (sx + MaxRangeOf - 1))
WindowY == IF PromoteMultihop
           THEN Uniform(2 * (sy + 1), 2 * (sy + MaxRangeOf - 1))
           ELSE Uniform(2 * (sy - MaxRangeOf + 1), 2 * (sy + MaxRangeOf - 1))

\* variant: a mote at exactly the transmitting range counts as in range
ConnectedAtRange(x, y) == \E k \in 1..Len(motes) :
                              Dist2(c.positions[motes[k]], x, y) <= TxRange * TxRange

\* lines 93-97: some placed mote is in range
Connected(x, y) == \E k \in 1..Len(motes) : DistLess(Dist2(c.positions[motes[k]], x, y), TxRange)

\* variant: only the mote placed last is compared with the minimal distance
SeparatedFromLast(x, y) == ~ DistLess(Dist2(c.positions[motes[Len(motes)]], x, y),
                                      args.min_distance)

\* lines 98-103: no placed mote is closer than the minimal distance
Separated(x, y) == ~ \E k \in 1..Len(motes) :
                        DistLess(Dist2(c.positions[motes[k]], x, y), args.min_distance)

\* value of done after one pass of the while body
Accepted(x, y) == Connected(x, y) /\ (args.min_distance > 0 => Separated(x, y))

\* variant: the position is written to the mote before m
CommitToPrevious(positions, m, x, y) == [positions EXCEPT ![m - 1] = <<x, y>>]

\* lines 105-106
CommitPosition(positions, m, x, y) == [positions EXCEPT ![m] = <<x, y>>]

(* ------------------------------ sweep ---------------------------------- *)
RECURSIVE Row(_, _)
Row(t, rs) == IF rs = << >> THEN << >> ELSE <<<<t, Head(rs)>>>> \o Row(t, Tail(rs))

\* variant: the first list varies fastest
ProductRxMajor(ts, rs) == [q \in 1..(Len(ts) * Len(rs)) |->
                              <<ts[((q - 1) % Len(ts)) + 1], rs[((q - 1) \div Len(ts)) + 1]>>]

\* itertools.product(ts, rs)
RECURSIVE Product(_, _)
Product(ts, rs) == IF ts = << >> THEN << >> ELSE Row(Head(ts), rs) \o Product(Tail(ts), rs)

\* variant: the ratio suffix is written only when both lists are longer than one
OutputFileBothLists(output, count, ntx, nrx, t_rat, r_rat, idx) ==
    LET f0 == Splitext(output)[1]
        f1 == IF nrx # 1 /\ ntx # 1
              THEN f0 \o <<"-", "t", "x">> \o Fmt2f(t_rat) \o <<"-", "r", "x">> \o Fmt2f(r_rat)
              ELSE f0
        f2 == IF count > 1 THEN f1 \o <<"-">> \o ZeroPad5(idx + 1) ELSE f1
    IN  f2 \o <<".", "c", "s", "c">>

\* variant: the iteration suffix is the 0-based index
OutputFileZeroBased(output, count, ntx, nrx, t_rat, r_rat, idx) ==
    LET f0 == Splitext(output)[1]
        f1 == IF nrx # 1 \/ ntx # 1
              THEN f0 \o <<"-", "t", "x">> \o Fmt2f(t_rat) \o <<"-", "r", "x">> \o Fmt2f(r_rat)
              ELSE f0
        f2 == IF count > 1 THEN f1 \o <<"-">> \o ZeroPad5(idx) ELSE f1
    IN  f2 \o <<".", "c", "s", "c">>

\* lines 114-119
OutputFile(output, count, ntx, nrx, t_rat, r_rat, idx) ==
    LET f0 == Splitext(output)[1]
        f1 == IF nrx # 1 \/ ntx # 1
              THEN f0 \o <<"-", "t", "x">> \o Fmt2f(t_rat) \o <<"-", "r", "x">> \o Fmt2f(r_rat)
              ELSE f0
        f2 == IF count > 1 THEN f1 \o <<"-">> \o ZeroPad5(idx + 1) ELSE f1
    IN  f2 \o <<".", "c", "s", "c">>

(* ------------------------------ seeds ---------------------------------- *)
\* variant: the seed is the 1-based index
FixedSeedOneBased(idx) == idx + 1

\* line 75
FixedSeed(idx) == idx

\* variant: any signed 32-bit value
RandomSeedsSigned == RandInt(0 - MaxSeed - 1, MaxSeed)

\* line 73
RandomSeeds == RandInt(0, MaxSeed)

SetSeed(v) == [op |-> "set_seed", value |-> v]
SetGenerated == [op |-> "set_generated", value |-> 0]
FileSeed == [op |-> "file", value |-> 0]

(* ---------------------------- validation ------------------------------- *)
RECURSIVE MinOf(_)
MinOf(ts) == IF Len(ts) = 1 THEN ts[1] ELSE Min(Head(ts), MinOf(Tail(ts)))
RECURSIVE MaxOf(_)
MaxOf(ts) == IF Len(ts) = 1 THEN ts[1] ELSE Max(Head(ts), MaxOf(Tail(ts)))

\* lines 36 and 39
RatioOutOfRange(ts) == MinOf(ts) < 0 \/ MaxOf(ts) > 1000

\* variant: a minimal distance equal to the range passes
MinDistanceLarger == args.min_distance > 0 /\ args.min_distance > TxRange

\* line 59
MinDistanceTooLarge == args.min_distance > 0 /\ args.min_distance >= TxRange

(* ------------------------------ inputs --------------------------------- *)
PathCsc == <<"d", "/", "o", ".", "c", "s", "c">>
PathBare == <<"o", ".", "c", "s", "c">>
PathNoExt == <<"d", ".", "e", "/", "o">>
PathTwoDots == <<"d", "/", "a", ".", "b", ".", "c", "s", "c">>
OutputPaths == {PathCsc, PathBare, PathNoExt, PathTwoDots}

RatioLists(V) == UNION {[1..m -> V] : m \in 1..MaxRatios}

\* the motes of the input scenario: mote k stands at <<k, -k>>
FilePositions(n) == [k \in 1..n |-> <<k, 0 - k>>]

Cfg(output, count, policy, topology, d, tx, rx, udgm, range, n, again) ==
    [output |-> output, count |-> count, seed_policy |-> policy, topology |-> topology,
     min_distance |-> d, tx_ratio |-> tx, rx_ratio |-> rx,
     udgm |-> udgm, range |-> range, n |-> n, reruns |-> again]

\* one iteration over every geometry whose window stays small: the spread window
\* has four times the area of the multihop window
PlacementConfigs ==
    {Cfg(PathCsc, 1, "f", "none", d, <<1000>>, <<1000>>, TRUE, g[1], g[2], 0) :
        d \in 0..MaxMinDistance,
        g \in {h \in (0..MaxRange) \X (1..MaxMotes) : h[1] * h[2] <= 3 * MaxMotes}}
    \cup
    {Cfg(PathCsc, 1, "f", "spread", d, <<1000>>, <<1000>>, TRUE, g[1], g[2], 0) :
        d \in 0..MaxMinDistance,
        g \in {h \in (0..MaxRange) \X (1..MaxMotes) : h[1] * h[2] <= 2 * MaxMotes}}

\* several iterations over two motes, and three motes twice
IterationConfigs ==
    {Cfg(PathCsc, k, "f", t, d, <<1000>>, <<1000>>, TRUE, 2, 2, 0) :
        k \in 0..MaxCount, t \in {"none", "spread"}, d \in 0..1}
    \cup {Cfg(PathCsc, 2, "f", t, d, <<1000>>, <<1000>>, TRUE, 2, 3, 0) :
            t \in {"none", "spread"}, d \in 0..1}

\* the ratio sweep over a single mote
SweepConfigs ==
    {Cfg(PathCsc, k, "f", "none", 0, tx, rx, TRUE, 2, 1, 0) :
        k \in 0..MaxCount, tx \in RatioLists({496, 504, 996}), rx \in RatioLists({504, 1000})}

\* output paths
NameConfigs ==
    {Cfg(o, k, "f", "none", 0, tx, <<1000>>, TRUE, 2, 1, 0) :
        o \in OutputPaths, k \in 1..2, tx \in {<<1000>>, <<496, 504>>}}

\* rejected ratio lists
BadRatioConfigs ==
    {Cfg(PathCsc, 1, "f", "none", 0, tx, rx, TRUE, 2, 2, 0) :
        tx \in {<<1000>>, <<0 - 4>>, <<496, 1004>>}, rx \in {<<1000>>, <<1004>>, <<0 - 4, 504>>}}

\* a radio medium without a transmitting range
FallbackConfigs ==
    {Cfg(PathCsc, 1, "f", t, d, <<1000>>, <<1000>>, FALSE, 0, 1, 0) :
        t \in {"none", "spread"}, d \in {0, 49, 50, 51}}

\* seed policies
SeedConfigs ==
    {Cfg(PathCsc, k, p, "none", 0, <<1000>>, <<504, 1000>>, TRUE, 2, 2, 0) :
        k \in 0..MaxCount, p \in {"r", "g", "f"}}

\* the same command line run twice
RerunConfigs ==
    {Cfg(PathCsc, k, p, "none", 0, <<1000>>, <<1000>>, TRUE, 2, 2, 1) :
        k \in 1..MaxCount, p \in {"r", "g", "f"}}

Configs == PlacementConfigs \cup IterationConfigs \cup SweepConfigs \cup NameConfigs
             \cup BadRatioConfigs \cup FallbackConfigs \cup SeedConfigs \cup RerunConfigs

NoCooja == [positions |-> << >>, seed |-> FileSeed,
            success_ratio_tx |-> 1000, success_ratio_rx |-> 1000]

\* a process of the script, started on the command line argv
Started(cfg) ==
    /\ argv = [output |-> cfg.output, count |-> cfg.count, seed_policy |-> cfg.seed_policy,
               topology |-> cfg.topology, min_distance |-> cfg.min_distance,
               tx_ratio |-> cfg.tx_ratio, rx_ratio |-> cfg.rx_ratio]
    /\ scenario = [udgm |-> cfg.udgm, transmitting_range |-> cfg.range,
                   positions |-> FilePositions(cfg.n)]
    /\ args = argv
    /\ pc = "validate"
    /\ exit_msg = ""
    /\ c = NoCooja
    /\ i = 0
    /\ motes = << >>
    /\ sx = 0
    /\ sy = 0
    /\ todo = << >>
    /\ saved = << >>
    /\ seed_log = << >>

Init == \E cfg \in Configs :
            /\ Started(cfg)
            /\ run = 1
            /\ reruns = cfg.reruns
            /\ prev = << >>

(* ------------------------------ actions -------------------------------- *)
Exit(msg) == pc' = "exit" /\ exit_msg' = msg

\* lines 36-44
ValidateRatios ==
    /\ pc = "validate"
    /\ IF RatioOutOfRange(args.tx_ratio)
       THEN Exit("Invalid Tx ratio") /\ UNCHANGED args
       ELSE IF RatioOutOfRange(args.rx_ratio)
       THEN Exit("Invalid Rx ratio") /\ UNCHANGED args
       ELSE /\ args' = [args EXCEPT
                          !.tx_ratio = [k \in 1..Len(args.tx_ratio) |-> Round2(args.tx_ratio[k])],
                          !.rx_ratio = [k \in 1..Len(args.rx_ratio) |-> Round2(args.rx_ratio[k])]]
            /\ pc' = "load"
            /\ UNCHANGED exit_msg
    /\ UNCHANGED <<argv, scenario, c, i, motes, sx, sy, todo, saved, seed_log, run, reruns, prev>>

\* lines 45-65: os.makedirs('') raises FileNotFoundError
LoadScenario ==
    /\ pc = "load"
    /\ IF OutputDir(args.output) = EmptyStr
       THEN /\ pc' = "crash"
            /\ exit_msg' = "FileNotFoundError"
            /\ UNCHANGED <<c, seed_log>>
       ELSE LET loaded == [NoCooja EXCEPT !.positions = scenario.positions]
                gen == args.seed_policy = "g"
                c1 == IF gen THEN [loaded EXCEPT !.seed = SetGenerated] ELSE loaded
                log1 == IF gen THEN Append(seed_log, [call |-> SetGenerated, at |-> 0 - 1, placed |-> Len(motes)])
                        ELSE seed_log
            IN  /\ c' = c1
                /\ seed_log' = log1
                /\ IF MinDistanceTooLarge
                   THEN Exit("Too large minimal distance")
                   ELSE pc' = "iterate" /\ UNCHANGED exit_msg
    /\ UNCHANGED <<argv, scenario, args, i, motes, sx, sy, todo, saved, run, reruns, prev>>

\* lines 67-75, with seed the value random.randint draws
BeginIteration(seed) ==
    /\ pc = "iterate"
    /\ i < args.count
    /\ sx' = 0
    /\ sy' = 0
    /\ motes' = << >>
    /\ LET call == IF args.seed_policy = "r" THEN SetSeed(seed)
                   ELSE IF args.seed_policy = "f" THEN SetSeed(FixedSeed(i))
                   ELSE FileSeed
       IN  IF args.seed_policy \in {"r", "f"}
           THEN /\ c' = [c EXCEPT !.seed = call]
                /\ seed_log' = Append(seed_log, [call |-> call, at |-> i, placed |-> Len(motes')])
           ELSE UNCHANGED <<c, seed_log>>
    /\ pc' = "place"
    /\ UNCHANGED <<argv, scenario, args, exit_msg, i, todo, saved, run, reruns, prev>>

\* lines 77-83: the first mote keeps its position
PlaceAnchor ==
    /\ pc = "place"
    /\ motes = << >>
    /\ Len(c.positions) > 0
    /\ motes' = <<1>>
    /\ sx' = c.positions[1][1]
    /\ sy' = c.positions[1][2]
    /\ UNCHANGED <<argv, scenario, args, pc, exit_msg, c, i, todo, saved, seed_log, run, reruns, prev>>

\* lines 84-108: one pass of the while loop on the candidate <<x, y>>. The locals
\* x and y are overwritten before they are read, so a rejected candidate leaves
\* the state as it was; an accepted one is committed.
SampleMote(x, y) ==
    /\ pc = "place"
    /\ motes # << >>
    /\ Len(motes) < Len(c.positions)
    /\ x \in WindowX
    /\ y \in WindowY
    /\ IF Accepted(x, y)
       THEN /\ c' = [c EXCEPT !.positions = CommitPosition(c.positions, Len(motes) + 1, x, y)]
            /\ motes' = Append(motes, Len(motes) + 1)
       ELSE UNCHANGED <<c, motes>>
    /\ UNCHANGED <<argv, scenario, args, pc, exit_msg, i, sx, sy, todo, saved, seed_log, run, reruns, prev>>

\* line 110: the product is taken when every mote is placed
StartSweep ==
    /\ pc = "place"
    /\ Len(motes) = Len(c.positions)
    /\ todo' = Product(args.tx_ratio, args.rx_ratio)
    /\ pc' = "sweep"
    /\ UNCHANGED <<argv, scenario, args, exit_msg, c, i, motes, sx, sy, saved, seed_log, run, reruns, prev>>

\* lines 110-121, one pair
SavePair ==
    /\ pc = "sweep"
    /\ todo # << >>
    /\ LET t_rat == Head(todo)[1]
           r_rat == Head(todo)[2]
           c1 == [c EXCEPT !.success_ratio_tx = t_rat, !.success_ratio_rx = r_rat]
           output_file == OutputFile(args.output, args.count, Len(args.tx_ratio),
                                     Len(args.rx_ratio), t_rat, r_rat, i)
       IN  /\ c' = c1
           /\ saved' = Append(saved, [file |-> output_file, content |-> c1, i |-> i,
                                      placed |-> Len(motes)])
    /\ todo' = Tail(todo)
    /\ UNCHANGED <<argv, scenario, args, pc, exit_msg, i, motes, sx, sy, seed_log, run, reruns, prev>>

\* line 67, next value of the range
EndIteration ==
    /\ pc = "sweep"
    /\ todo = << >>
    /\ i' = i + 1
    /\ pc' = "iterate"
    /\ UNCHANGED <<argv, scenario, args, exit_msg, c, motes, sx, sy, todo, saved, seed_log, run, reruns, prev>>

\* line 67, range exhausted: main returns
Finish ==
    /\ pc = "iterate"
    /\ i >= args.count
    /\ pc' = "done"
    /\ UNCHANGED <<argv, scenario, args, exit_msg, c, i, motes, sx, sy, todo, saved, seed_log, run, reruns, prev>>

\* the same command line is run again on the same input file; prev keeps what the
\* finished run saved
Rerun ==
    /\ pc = "done"
    /\ reruns > 0
    /\ reruns' = reruns - 1
    /\ run' = run + 1
    /\ prev' = saved
    /\ args' = argv
    /\ pc' = "validate"
    /\ exit_msg' = ""
    /\ c' = NoCooja
    /\ i' = 0
    /\ motes' = << >>
    /\ sx' = 0
    /\ sy' = 0
    /\ todo' = << >>
    /\ saved' = << >>
    /\ seed_log' = << >>
    /\ UNCHANGED <<argv, scenario>>

Next ==
    \/ ValidateRatios
    \/ LoadScenario
    \/ \E seed \in RandomSeeds : BeginIteration(seed)
    \/ PlaceAnchor
    \/ \E x \in WindowX, y \in WindowY : SampleMote(x, y)
    \/ StartSweep
    \/ SavePair
    \/ EndIteration
    \/ Finish
    \/ Rerun

Spec == Init /\ [][Next]_vars

\* the command lines whose output path names a directory
InitInDirectory == Init /\ OutputDir(argv.output) # EmptyStr

\* the interpreter runs the next statement, and every candidate of the window is
\* drawn again and again
FairSpec == InitInDirectory /\ [][Next]_vars /\ WF_vars(Next)

(* ============================ properties =============================== *)
SavedIdx == 1..Len(saved)
NMotes == Len(scenario.positions)
SqDist(p, q) == (p[1] - q[1]) * (p[1] - q[1]) + (p[2] - q[2]) * (p[2] - q[2])

\* the motes 1..n of a position list are chained: each but the first has an earlier
\* one strictly inside the transmitting range
Chained(positions, n) ==
    \A k \in 2..n : \E j \in 1..(k - 1) :
        TxRange > 0 /\ SqDist(positions[j], positions[k]) < TxRange * TxRange

\* C1: in every iteration each committed non-anchor mote has a mote placed earlier
\* in the same iteration at Euclidean distance strictly below the transmitting
\* range, after every commit and in every saved artifact.
C1_Connectivity ==
    /\ Chained(c.positions, Len(motes))
    /\ \A j \in SavedIdx : Chained(saved[j].content.positions, NMotes)

\* C1 witness: in the second iteration three motes are placed and saved, the third
\* out of the anchor's range and reached through the second.
C1_Witness ==
    /\ pc = "sweep" /\ i = 1 /\ Len(motes) = 3 /\ Len(saved) = 2
    /\ SqDist(c.positions[1], c.positions[3]) >= TxRange * TxRange
    /\ SqDist(c.positions[2], c.positions[3]) < TxRange * TxRange

\* every two of the motes 1..n are at least d apart
Apart(positions, n, d) ==
    \A j \in 1..n, k \in 1..n : j < k => SqDist(positions[j], positions[k]) >= d * d

\* C2: with a minimal distance D > 0, every two motes placed in the iteration
\* (anchor included) are at Euclidean distance at least D, after every commit and
\* in every saved artifact.
C2_Separation ==
    argv.min_distance > 0 =>
        /\ Apart(c.positions, Len(motes), argv.min_distance)
        /\ \A j \in SavedIdx : Apart(saved[j].content.positions, NMotes, argv.min_distance)

\* C2 witness: minimal distance 2 under range 3, three motes placed and saved, the
\* second and third exactly 2 apart.
C2_Witness ==
    /\ argv.min_distance = 2 /\ TxRange = 3 /\ Len(motes) = 3 /\ Len(saved) = 1
    /\ SqDist(c.positions[2], c.positions[3]) = 4

\* C3: the first mote's coordinates are never written: in the loaded scenario and
\* in every saved artifact they are those of the input file.
C3_AnchorInvariance ==
    /\ c.positions # << >> => c.positions[1] = scenario.positions[1]
    /\ \A j \in SavedIdx : saved[j].content.positions[1] = scenario.positions[1]

\* C3 witness: two iterations are done, the other motes were moved and saved.
C3_Witness ==
    /\ pc = "done" /\ i = 2 /\ Len(saved) = 2 /\ NMotes = 3
    /\ c.positions[2] # scenario.positions[2]
    /\ c.positions[3] # scenario.positions[3]
    /\ saved[1].content.positions # saved[2].content.positions

\* a mote was moved or an artifact was saved
GenerationProceeded ==
    \/ saved # << >>
    \/ c.positions # << >> /\ c.positions # scenario.positions

RatiosInRange ==
    /\ \A k \in 1..Len(argv.tx_ratio) : argv.tx_ratio[k] >= 0 /\ argv.tx_ratio[k] <= 1000
    /\ \A k \in 1..Len(argv.rx_ratio) : argv.rx_ratio[k] >= 0 /\ argv.rx_ratio[k] <= 1000

\* the process has not come to the batch loop
BeforeBatch == pc \in {"validate", "load", "exit", "crash"}

C5_AsClaimed ==
    \A a \in SavedIdx, b \in SavedIdx : a # b => saved[a].file # saved[b].file

\* C5 amended: two saves of one invocation have the same artifact name only if they
\* belong to the same iteration and apply the same tx and the same rx value (after
\* rounding to two decimals); equal values in a ratio list share one name.
C5_NameUniqueness ==
    \A a \in SavedIdx, b \in SavedIdx :
        saved[a].file = saved[b].file =>
            /\ saved[a].i = saved[b].i
            /\ saved[a].content.success_ratio_tx = saved[b].content.success_ratio_tx
            /\ saved[a].content.success_ratio_rx = saved[b].content.success_ratio_rx

\* C5 witness: two iterations of a 2 x 2 sweep are saved under four names: the tx
\* values 0.496 and 0.504 round to one value and share a name, the two rx values
\* and the two iterations do not.
C5_Witness ==
    /\ pc = "done" /\ Len(saved) = 8
    /\ Cardinality({saved[a].file : a \in SavedIdx}) = 4
    /\ argv.tx_ratio = <<496, 504>> /\ argv.rx_ratio = <<504, 1000>>

\* C6: in every iteration the pairs applied and saved are the cross product of the
\* (rounded) tx and rx lists, tx-major and rx-minor, one save per pair after all
\* motes are placed: |tx| x |rx| saves per iteration, count x |tx| x |rx| in total.
C6_SweepOrder ==
    LET ntx == Len(args.tx_ratio)
        nrx == Len(args.rx_ratio)
        per == ntx * nrx
    IN  /\ \A j \in SavedIdx :
              LET q == (j - 1) % per
              IN  /\ saved[j].i = (j - 1) \div per
                  /\ saved[j].content.success_ratio_tx = args.tx_ratio[(q \div nrx) + 1]
                  /\ saved[j].content.success_ratio_rx = args.rx_ratio[(q % nrx) + 1]
                  /\ saved[j].placed = NMotes
        /\ pc = "sweep" => Len(saved) = i * per + (per - Len(todo))
        /\ pc = "iterate" => Len(saved) = i * per
        /\ pc = "done" => Len(saved) = args.count * per
        /\ saved # << >> => /\ c.success_ratio_tx = saved[Len(saved)].content.success_ratio_tx
                            /\ c.success_ratio_rx = saved[Len(saved)].content.success_ratio_rx

\* C6 witness: two iterations of a 2 x 2 sweep with distinct tx and distinct rx
\* values have finished.
C6_Witness ==
    /\ pc = "done" /\ args.count = 2 /\ Len(saved) = 8
    /\ argv.tx_ratio = <<504, 996>> /\ args.tx_ratio = <<500, 1000>>
    /\ args.rx_ratio = <<500, 1000>>
    /\ saved[2].content.success_ratio_tx = args.tx_ratio[1]
    /\ saved[2].content.success_ratio_rx = 1000

\* the saves that both runs of the command line have made
BothRuns == 1..Min(Len(saved), Len(prev))

\* C7 as claimed: under the fixed seed policy the topology of iteration i is
\* reproducible: the second run of the same command line on the same input saves,
\* in every iteration, the node positions the first run saved.
C7_AsClaimed ==
    (argv.seed_policy = "f" /\ run = 2) =>
        \A j \in BothRuns : saved[j].content.positions = prev[j].content.positions

\* C7 amended: under the fixed seed policy iteration i (0-based) sets the scenario's
\* simulation seed to i, so the seed saved in iteration i is the same in two runs
\* with identical inputs; the node positions come from the process-wide generator,
\* which no policy seeds, and are not reproducible.
C7_FixedSeedReproducible ==
    argv.seed_policy = "f" =>
        /\ \A j \in SavedIdx : saved[j].content.seed = [op |-> "set_seed", value |-> saved[j].i]
        /\ run = 2 => \A j \in BothRuns :
                         /\ saved[j].i = prev[j].i
                         /\ saved[j].content.seed = prev[j].content.seed

\* C7 witness: the second run has saved its second iteration with the seed of the
\* first run and with other positions.
C7_Witness ==
    /\ argv.seed_policy = "f" /\ run = 2 /\ pc = "done" /\ Len(saved) = 2 /\ Len(prev) = 2
    /\ saved[2].content.seed = prev[2].content.seed
    /\ saved[2].content.seed.value = 1
    /\ saved[2].content.positions # prev[2].content.positions

\* iterations begun in this run
Begun == IF pc \in {"place", "sweep"} THEN i + 1
         ELSE IF pc \in {"iterate", "done"} THEN i ELSE 0

\* C8: under 'fixed' iteration i sets the seed to i exactly once, before any mote of
\* the iteration is placed; under 'random' every iteration sets the seed exactly
\* once, before placement, to a value in [0, 2^31-1]; under 'generated' the scenario
\* is switched to a generated seed exactly once, before the first iteration, and no
\* explicit seed is ever set.
C8_SeedingActions ==
    /\ argv.seed_policy = "f" =>
          /\ Len(seed_log) = Begun
          /\ \A j \in 1..Len(seed_log) :
                seed_log[j] = [call |-> [op |-> "set_seed", value |-> j - 1],
                               at |-> j - 1, placed |-> 0]
    /\ argv.seed_policy = "r" =>
          /\ Len(seed_log) = Begun
          /\ \A j \in 1..Len(seed_log) :
                /\ seed_log[j].call.op = "set_seed"
                /\ seed_log[j].call.value \in 0..2147483647
                /\ seed_log[j].at = j - 1
                /\ seed_log[j].placed = 0
    /\ argv.seed_policy = "g" =>
          /\ seed_log = IF pc \in {"validate", "load", "crash"} THEN << >>
                        ELSE <<[call |-> [op |-> "set_generated", value |-> 0],
                                at |-> 0 - 1, placed |-> 0]>>
          /\ c.seed.op # "set_seed"
          /\ \A j \in SavedIdx : saved[j].content.seed.op = "set_generated"
    /\ pc \in {"place", "sweep"} /\ argv.seed_policy \in {"r", "f"} =>
          c.seed = seed_log[Len(seed_log)].call

\* C8 witness: under 'random' two iterations have run, the first seeded with
\* 2^31-1 and the second with 0.
C8_Witness ==
    /\ argv.seed_policy = "r" /\ pc = "done" /\ Len(seed_log) = 2
    /\ seed_log[1].call.value = 2147483647
    /\ seed_log[2].call.value = 0
    /\ saved[1].content.seed.value = 2147483647

RECURSIVE DigitsValue(_)
DigitsValue(s) ==
    IF s = << >> THEN 0
    ELSE 10 * DigitsValue(SubSeq(s, 1, Len(s) - 1))
           + (CHOOSE d \in 0..9 : DigitChars[d + 1] = s[Len(s)])

IsDigits(s) == \A k \in 1..Len(s) : \E d \in 1..10 : DigitChars[d] = s[k]

\* text of the form d.dd that reads as h hundredths
ReadsAsHundredths(s, h) ==
    /\ Len(s) = 4 /\ s[2] = "." /\ IsDigits(<<s[1], s[3], s[4]>>)
    /\ DigitsValue(<<s[1], s[3], s[4]>>) = h

\* the output path without its extension: cut at the last dot, when that dot lies
\* in the file name behind a character that is no dot
WithoutExtension(p) ==
    LET cuts == {k \in 1..Len(p) :
                    /\ p[k] = "."
                    /\ \A j \in (k + 1)..Len(p) : p[j] # "." /\ p[j] # "/"
                    /\ \E j \in 1..(k - 1) :
                          p[j] # "." /\ \A l \in j..(k - 1) : p[l] # "/"}
    IN  IF cuts = {} THEN p ELSE SubSeq(p, 1, (CHOOSE k \in cuts : TRUE) - 1)

\* name is base, then -tx<tx>-rx<rx> iff a list is longer than one, then -<k> in
\* five digits iff count > 1, then .csc
WellNamed(name, base, k, count, ntx, nrx, tx, rx) ==
    LET nb == Len(base)
        nr == IF ntx > 1 \/ nrx > 1 THEN 14 ELSE 0
        nk == IF count > 1 THEN 6 ELSE 0
        at(a, n) == SubSeq(name, a + 1, a + n)
    IN  /\ Len(name) = nb + nr + nk + 4
        /\ at(0, nb) = base
        /\ nr > 0 => /\ at(nb, 3) = <<"-", "t", "x">>
                     /\ ReadsAsHundredths(at(nb + 3, 4), tx \div 10)
                     /\ at(nb + 7, 3) = <<"-", "r", "x">>
                     /\ ReadsAsHundredths(at(nb + 10, 4), rx \div 10)
        /\ nk > 0 => /\ at(nb + nr, 1) = <<"-">>
                     /\ IsDigits(at(nb + nr + 1, 5))
                     /\ DigitsValue(at(nb + nr + 1, 5)) = k
        /\ at(nb + nr + nk, 4) = <<".", "c", "s", "c">>

\* C9: the artifact name of the 1-based iteration k and the pair (tx, rx) is the
\* output path without its extension, then -tx{tx:.2f}-rx{rx:.2f} iff either ratio
\* list is longer than one, then the 5-digit zero-padded -{k:05} iff count > 1, then
\* .csc; it depends on (base, k, count, list lengths, tx, rx) only.
C9_NamingRule ==
    \A j \in SavedIdx :
        WellNamed(saved[j].file, WithoutExtension(argv.output), saved[j].i + 1, argv.count,
                  Len(argv.tx_ratio), Len(argv.rx_ratio),
                  saved[j].content.success_ratio_tx, saved[j].content.success_ratio_rx)

\* C9 witness: the second iteration of d/a.b.csc with two tx values is saved as
\* d/a.b-tx0.50-rx1.00-00002.csc.
C9_Witness ==
    \E j \in SavedIdx :
        /\ argv.output = PathTwoDots
        /\ saved[j].file = <<"d", "/", "a", ".", "b", "-", "t", "x", "0", ".", "5", "0",
                             "-", "r", "x", "1", ".", "0", "0", "-", "0", "0", "0", "0", "2",
                             ".", "c", "s", "c">>

\* the command line passes validation and the transmitting range is positive
ValidPositive ==
    /\ pc = "validate"
    /\ RatiosInRange
    /\ ~(argv.min_distance > 0 /\ argv.min_distance >= TxRange)
    /\ TxRange > 0

AllSaved ==
    /\ pc = "done"
    /\ Len(saved) = argv.count * Len(argv.tx_ratio) * Len(argv.rx_ratio)

\* C10 as claimed: every configuration that passes validation and has a positive
\* transmitting range has, for every mote to place, an acceptable candidate in its
\* window, so under fair sampling every rejection loop exits and the batch finishes
\* with count x |tx| x |rx| artifacts saved.
C10_AsClaimed == ValidPositive ~> AllSaved
====
